---- MODULE Spec2Model ----
(***************************************************************************)
(* Model of vyper/ast/annotation.py: annotate_python_ast and its three     *)
(* node transformers (AnnotatingVisitor, RewriteUnarySubVisitor,           *)
(* AddSourceOffsetVisitor) acting on a python AST held in a heap of node   *)
(* objects.  A node is identified by its address; attributes are mutated   *)
(* in place, as in Python.                                                 *)
(***************************************************************************)
EXTENDS Integers, Sequences, FiniteSets, TLC

VARIABLES pc, heap, args, visitor, exc, input, before, aborted

vars == <<pc, heap, args, visitor, exc, input, before, aborted>>

(***************************************************************************)
(* Bounds of the model.                                                    *)
(***************************************************************************)
\* Largest number of nodes of a tree handed to annotate_python_ast.
MaxNodes == 6
\* Largest number of statements in the body of a Module or a ClassDef.
MaxBody == 1

(***************************************************************************)
(* Python values.  An attribute is absent (Unset), None, an int or a str.  *)
(***************************************************************************)
Unset == [tag |-> "unset"]
PyNone == [tag |-> "None"]
PyInt(i) == [tag |-> "int", v |-> i]
PyStr(s) == [tag |-> "str", s |-> s]

(***************************************************************************)
(* The value of a Constant node: its Python type and a numeric payload     *)
(* (floats are kept in tenths, so 15 stands for 1.5).                      *)
(***************************************************************************)
Values ==
    { [type |-> "bool", n |-> 1], [type |-> "NoneType", n |-> 0],
      [type |-> "int", n |-> 3], [type |-> "float", n |-> 15],
      [type |-> "str", n |-> 0], [type |-> "bytes", n |-> 0],
      [type |-> "complex", n |-> 2] }

NoValue == [type |-> "absent", n |-> 0]

\* Python's isinstance(value, types): bool is a subclass of int.
Bases(type) == IF type = "bool" THEN {"bool", "int"} ELSE {type}

IsInstance(value, types) == Bases(value.type) \cap types # {}

UnaryOps == {"USub", "Not"}

ClassNames == {"Foo", "Bar"}

\* The optional arguments of a call: both left at their defaults (no
\* class_types, source_id 0), or both given.  A class_types table is a set of
\* <<name, class type>> pairs.
CallOptions ==
    { [class_types |-> PyNone, source_id |-> 0],
      [class_types |-> [tag |-> "dict", items |-> {<<"Foo", "contract">>}],
       source_id |-> 7] }

SourceCode == "x = -3"

(***************************************************************************)
(* Node objects as the parser produces them.  kids lists the child nodes   *)
(* in _fields order (UnaryOp: op, operand; BinOp: left, op, right; Expr:   *)
(* value; Module and ClassDef: body).  Expressions and statements carry a  *)
(* position; operators and Module do not.                                  *)
(***************************************************************************)
NewNode(cls, kids, name, value, col) ==
    [ cls |-> cls, kids |-> kids, name |-> name, value |-> value,
      lineno |-> IF col = Unset THEN Unset ELSE PyInt(1),
      col_offset |-> col,
      end_lineno |-> IF col = Unset THEN Unset ELSE PyInt(1),
      end_col_offset |-> IF col = Unset THEN Unset ELSE PyInt(col.v + 1),
      node_id |-> Unset, source_code |-> Unset, ast_type |-> Unset,
      class_type |-> Unset, first_token |-> Unset, last_token |-> Unset,
      src |-> Unset ]

NoHeap == <<>>

RECURSIVE ExprHeaps(_, _)
\* The expression trees of exactly n nodes, laid out from address a on.
ExprHeaps(n, a) ==
    IF n < 1 THEN {}
    ELSE (IF n = 1
          THEN {a :> NewNode("Constant", <<>>, "", v, PyInt(a - 1)) : v \in Values}
               \cup {a :> NewNode("Name", <<>>, "", NoValue, PyInt(a - 1))}
          ELSE {})
         \cup
         { (a :> NewNode("UnaryOp", <<a + 1, a + 2>>, "", NoValue, PyInt(a - 1)))
           @@ (a + 1 :> NewNode(op, <<>>, "", NoValue, Unset)) @@ h :
             op \in UnaryOps, h \in ExprHeaps(n - 2, a + 2) }
         \cup
         UNION { { (a :> NewNode("BinOp", <<a + 1, a + 1 + k, a + 2 + k>>, "",
                                 NoValue, PyInt(a - 1)))
                   @@ l @@ (a + 1 + k :> NewNode("Add", <<>>, "", NoValue, Unset))
                   @@ r :
                     l \in ExprHeaps(k, a + 1),
                     r \in ExprHeaps(n - 2 - k, a + 2 + k) } :
                 k \in 1..(n - 3) }

\* The expression statements of exactly n nodes, laid out from address a on.
ExprStmtHeaps(n, a) ==
    { (a :> NewNode("Expr", <<a + 1>>, "", NoValue, PyInt(a - 1))) @@ h :
        h \in ExprHeaps(n - 1, a + 1) }

RECURSIVE ExprForests(_, _, _)
\* The lists of at most m expression statements, n nodes in all, from a on.
ExprForests(n, a, m) ==
    IF n = 0 THEN {[addrs |-> <<>>, heap |-> NoHeap]}
    ELSE IF m = 0 THEN {}
    ELSE UNION { { [addrs |-> <<a>> \o f.addrs, heap |-> s @@ f.heap] :
                     s \in ExprStmtHeaps(k, a),
                     f \in ExprForests(n - k, a + k, m - 1) } :
                 k \in 1..n }

\* The class definitions of exactly n nodes: a name and a body of expression
\* statements.
ClassDefHeaps(n, a) ==
    IF n < 1 THEN {}
    ELSE { (a :> NewNode("ClassDef", f.addrs, name, NoValue, PyInt(a - 1)))
           @@ f.heap :
             name \in ClassNames, f \in ExprForests(n - 1, a + 1, MaxBody) }

StmtHeaps(n, a) == ExprStmtHeaps(n, a) \cup ClassDefHeaps(n, a)

RECURSIVE StmtForests(_, _, _)
\* The lists of at most m statements, n nodes in all, from address a on.
StmtForests(n, a, m) ==
    IF n = 0 THEN {[addrs |-> <<>>, heap |-> NoHeap]}
    ELSE IF m = 0 THEN {}
    ELSE UNION { { [addrs |-> <<a>> \o f.addrs, heap |-> s @@ f.heap] :
                     s \in StmtHeaps(k, a),
                     f \in StmtForests(n - k, a + k, m - 1) } :
                 k \in 1..n }

\* The trees of exactly n nodes a caller may pass, rooted at address 1: an
\* expression, a statement or a module.
Trees(n) ==
    ExprHeaps(n, 1) \cup StmtHeaps(n, 1)
    \cup { (1 :> NewNode("Module", f.addrs, "", NoValue, Unset)) @@ f.heap :
             f \in StmtForests(n - 1, 2, MaxBody) }

InputTrees == UNION {Trees(n) : n \in 1..MaxNodes}

(***************************************************************************)
(* Shape of a tree held in a heap.                                         *)
(***************************************************************************)
RECURSIVE PreOrder(_, _)
RECURSIVE PreOrderOfKids(_, _, _)
\* The nodes below and including node, in pre-order (a node, then its
\* children's subtrees in field order).
PreOrder(h, node) == <<node>> \o PreOrderOfKids(h, h[node].kids, 1)

PreOrderOfKids(h, kids, i) ==
    IF i > Len(kids) THEN <<>>
    ELSE PreOrder(h, kids[i]) \o PreOrderOfKids(h, kids, i + 1)

Range(seq) == {seq[i] : i \in 1..Len(seq)}

\* The nodes reachable from node through child links.
Subtree(h, node) == Range(PreOrder(h, node))

(***************************************************************************)
(* AnnotatingVisitor: node ids, source code, ast types, class types.       *)
(* A traversal threads s = [heap, visitor, exc]: the node objects, the     *)
(* visitor object (self) and the exception being raised, if any.           *)
(***************************************************************************)
NoVisitor == [counter |-> 0, _source_code |-> "", _class_types |-> {}]

NoExc == [tag |-> "none"]

NoArgs ==
    [parsed_ast |-> 1, source_code |-> "", class_types |-> PyNone, source_id |-> 0]

\* The visitor another construction would make if counter were shared by
\* all visitors instead of being set in __init__.
NewAnnotatingVisitor_sharedCounter(source_code, class_types) ==
    [ _source_code |-> source_code,
      counter |-> visitor.counter,
      _class_types |-> IF class_types # PyNone THEN class_types.items ELSE {} ]

\* AnnotatingVisitor.__init__
NewAnnotatingVisitor(source_code, class_types) ==
    [ _source_code |-> source_code,
      counter |-> 0,
      _class_types |-> IF class_types # PyNone THEN class_types.items ELSE {} ]

\* dict.get(name): the value stored under name, None when there is none.
DictGet(items, name) ==
    IF \E p \in items : p[1] = name
    THEN PyStr((CHOOSE p \in items : p[1] = name)[2])
    ELSE PyNone

RECURSIVE AnnotatingVisitor_visit(_, _)
RECURSIVE AnnotatingVisitor_visit_fields(_, _, _)

\* NodeTransformer.generic_visit: visit the child nodes in field order.  An
\* exception raised below ends the loop.  Every visit method of this visitor
\* returns the node it was given, so the child links are rewritten with the
\* values they hold.
AnnotatingVisitor_visit_fields(s, node, i) ==
    IF s.exc # NoExc \/ i > Len(s.heap[node].kids) THEN s
    ELSE AnnotatingVisitor_visit_fields(
             AnnotatingVisitor_visit(s, s.heap[node].kids[i]), node, i + 1)

\* The decoration with the counter advanced before it is read.
Decorate_incrementFirst(s, node) ==
    [s EXCEPT !.heap[node].source_code = PyStr(s.visitor._source_code),
              !.heap[node].node_id = PyInt(s.visitor.counter + 1),
              !.heap[node].ast_type = PyStr(s.heap[node].cls),
              !.visitor.counter = @ + 1]

\* The decoration that numbers a node by the count of the nodes before it
\* on its own level only (the counter is not advanced past the children).
Decorate_noIncrement(s, node) ==
    [s EXCEPT !.heap[node].source_code = PyStr(s.visitor._source_code),
              !.heap[node].node_id = PyInt(s.visitor.counter),
              !.heap[node].ast_type = PyStr(s.heap[node].cls)]

\* AnnotatingVisitor.generic_visit, lines 32-35.
Decorate(s, node) ==
    [s EXCEPT !.heap[node].source_code = PyStr(s.visitor._source_code),
              !.heap[node].node_id = PyInt(s.visitor.counter),
              !.heap[node].ast_type = PyStr(s.heap[node].cls),
              !.visitor.counter = @ + 1]

AnnotatingVisitor_generic_visit(s, node) ==
    AnnotatingVisitor_visit_fields(Decorate(s, node), node, 1)

\* The lookup that defaults to the empty string.
LookupClassType_emptyDefault(class_types, name) ==
    IF \E p \in class_types : p[1] = name
    THEN DictGet(class_types, name)
    ELSE PyStr("")

\* self._class_types.get(node.name)
LookupClassType(class_types, name) == DictGet(class_types, name)

AnnotatingVisitor_visit_ClassDef(s, node) ==
    LET s1 == AnnotatingVisitor_generic_visit(s, node)
    IN  IF s1.exc # NoExc THEN s1
        ELSE [s1 EXCEPT !.heap[node].class_type =
                  LookupClassType(s1.visitor._class_types, s1.heap[node].name)]

\* The classification with the numeric test first.
ConstantKind_numFirst(value) ==
    IF IsInstance(value, {"int", "float"}) THEN "Num"
    ELSE IF value.type = "NoneType" \/ IsInstance(value, {"bool"})
         THEN "NameConstant"
    ELSE IF IsInstance(value, {"str"}) THEN "Str"
    ELSE IF IsInstance(value, {"bytes"}) THEN "Bytes"
    ELSE "raise"

\* The classification that falls back to Str instead of raising.
ConstantKind_defaultStr(value) ==
    IF value.type = "NoneType" \/ IsInstance(value, {"bool"})
    THEN "NameConstant"
    ELSE IF IsInstance(value, {"int", "float"}) THEN "Num"
    ELSE IF IsInstance(value, {"bytes"}) THEN "Bytes"
    ELSE "Str"

\* The if/elif chain of visit_Constant: the ast_type, or "raise".
ConstantKind(value) ==
    IF value.type = "NoneType" \/ IsInstance(value, {"bool"})
    THEN "NameConstant"
    ELSE IF IsInstance(value, {"int", "float"}) THEN "Num"
    ELSE IF IsInstance(value, {"str"}) THEN "Str"
    ELSE IF IsInstance(value, {"bytes"}) THEN "Bytes"
    ELSE "raise"

AnnotatingVisitor_visit_Constant(s, node) ==
    LET s1 == AnnotatingVisitor_generic_visit(s, node)
        kind == ConstantKind(s1.heap[node].value)
    IN  IF s1.exc # NoExc THEN s1
        ELSE IF kind = "raise"
             THEN [s1 EXCEPT !.exc = [tag |-> "SyntaxException", node |-> node]]
        ELSE [s1 EXCEPT !.heap[node].ast_type = PyStr(kind)]

\* NodeVisitor.visit: dispatch on the node's class.
AnnotatingVisitor_visit(s, node) ==
    IF s.heap[node].cls = "ClassDef" THEN AnnotatingVisitor_visit_ClassDef(s, node)
    ELSE IF s.heap[node].cls = "Constant"
         THEN AnnotatingVisitor_visit_Constant(s, node)
    ELSE AnnotatingVisitor_generic_visit(s, node)

(***************************************************************************)
(* RewriteUnarySubVisitor: a visit yields the heap it leaves and the node  *)
(* it returns, which the parent stores in the child's place.               *)
(***************************************************************************)
RECURSIVE RewriteUnarySubVisitor_visit(_, _)
RECURSIVE RewriteUnarySubVisitor_visit_fields(_, _, _)

\* NodeTransformer.generic_visit: each child is visited in field order and
\* replaced by the node its visit returns.
RewriteUnarySubVisitor_visit_fields(h, node, i) ==
    IF i > Len(h[node].kids) THEN h
    ELSE LET r == RewriteUnarySubVisitor_visit(h, h[node].kids[i])
         IN  RewriteUnarySubVisitor_visit_fields(
                 [r.heap EXCEPT ![node].kids[i] = r.ret], node, i + 1)

RewriteUnarySubVisitor_generic_visit(h, node) ==
    [heap |-> RewriteUnarySubVisitor_visit_fields(h, node, 1), ret |-> node]

\* isinstance(node, python_ast.Num): a Constant holding an int, a float or a
\* complex that is not a bool.
IsNum(n) ==
    /\ n.cls = "Constant"
    /\ IsInstance(n.value, {"int", "float", "complex"})
    /\ ~IsInstance(n.value, {"bool"})

\* The fold that also hands the unary node's id to the operand.
FoldOperand_takesId(h, node, operand) ==
    [h EXCEPT ![operand].value.n = 0 - @,
              ![operand].col_offset = h[node].col_offset,
              ![operand].node_id = h[node].node_id]

\* Lines 69-71: negate the operand and move it to the unary node's column.
FoldOperand(h, node, operand) ==
    [h EXCEPT ![operand].value.n = 0 - @,
              ![operand].col_offset = h[node].col_offset]

\* The test of line 68 without the operator check.
IsNegatedNum_anyOp(op, operand) == IsNum(operand)

\* Line 68: isinstance(node.op, USub) and isinstance(node.operand, Num)
IsNegatedNum(op, operand) == op.cls = "USub" /\ IsNum(operand)

RewriteUnarySubVisitor_visit_UnaryOp(h, node) ==
    LET h1 == RewriteUnarySubVisitor_generic_visit(h, node).heap
        op == h1[node].kids[1]
        operand == h1[node].kids[2]
    IN  IF IsNegatedNum(h1[op], h1[operand])
        THEN [heap |-> FoldOperand(h1, node, operand), ret |-> operand]
        ELSE [heap |-> h1, ret |-> node]

RewriteUnarySubVisitor_visit(h, node) ==
    IF h[node].cls = "UnaryOp" THEN RewriteUnarySubVisitor_visit_UnaryOp(h, node)
    ELSE RewriteUnarySubVisitor_generic_visit(h, node)

(***************************************************************************)
(* asttokens.ASTTokens(source_code, tree): the tokenizer association.      *)
(* The nodes it marks get first_token and last_token.  It never marks      *)
(* operator nodes, and the model lets it leave one literal unmarked too.   *)
(***************************************************************************)
Singletons == {"USub", "Not", "Add"}

\* The tokens of the node at address a: a start (line, column), an end
\* (line, column) and the byte offsets of both.
FirstToken(a) == [start |-> <<2, a>>, startpos |-> 10 * a]

LastToken(a) == [end |-> <<3, a + 4>>, endpos |-> 10 * a + 5]

MarkTokens(h, root, skipped) ==
    [ a \in DOMAIN h |->
        IF a \in Subtree(h, root) /\ h[a].cls \notin Singletons /\ a # skipped
        THEN [h[a] EXCEPT !.first_token = FirstToken(a),
                          !.last_token = LastToken(a)]
        ELSE h[a] ]

(***************************************************************************)
(* AddSourceOffsetVisitor                                                  *)
(***************************************************************************)
\* Line 94: f"{start_pos}:{end_pos-start_pos}:{self._source_id}"
FormatSrc(start_pos, end_pos, source_id) ==
    PyStr(ToString(start_pos) \o ":" \o ToString(end_pos - start_pos) \o ":"
          \o ToString(source_id))

\* The start with the node's own position kept when it has no token.
StartOf_keepsOwn(n) ==
    IF n.first_token # Unset
    THEN <<PyInt(n.first_token.start[1]), PyInt(n.first_token.start[2])>>
    ELSE <<n.lineno, n.col_offset>>

\* Line 83: node.first_token.start, or (None, None)
StartOf(n) ==
    IF n.first_token # Unset
    THEN <<PyInt(n.first_token.start[1]), PyInt(n.first_token.start[2])>>
    ELSE <<PyNone, PyNone>>

\* Line 84: node.last_token.end, or (None, None)
EndOf(n) ==
    IF n.last_token # Unset
    THEN <<PyInt(n.last_token.end[1]), PyInt(n.last_token.end[2])>>
    ELSE <<PyNone, PyNone>>

\* Lines 83-94 on one node.
SetOffsets(h, node, source_id) ==
    LET n == h[node]
        h1 == [h EXCEPT ![node].lineno = StartOf(n)[1],
                        ![node].col_offset = StartOf(n)[2],
                        ![node].end_lineno = EndOf(n)[1],
                        ![node].end_col_offset = EndOf(n)[2]]
    IN  IF n.last_token # Unset
        THEN [h1 EXCEPT ![node].src =
                  FormatSrc(n.first_token.startpos, n.last_token.endpos,
                            source_id)]
        ELSE h1

RECURSIVE AddSourceOffsetVisitor_visit(_, _, _)
RECURSIVE AddSourceOffsetVisitor_visit_fields(_, _, _, _)

\* NodeTransformer.generic_visit: every visit returns the node it was given.
AddSourceOffsetVisitor_visit_fields(h, node, i, source_id) ==
    IF i > Len(h[node].kids) THEN h
    ELSE AddSourceOffsetVisitor_visit_fields(
             AddSourceOffsetVisitor_visit(h, h[node].kids[i], source_id),
             node, i + 1, source_id)

\* AddSourceOffsetVisitor.generic_visit, reached for every class of node.
AddSourceOffsetVisitor_visit(h, node, source_id) ==
    AddSourceOffsetVisitor_visit_fields(SetOffsets(h, node, source_id),
                                        node, 1, source_id)

(***************************************************************************)
(* annotate_python_ast, one action per statement.                          *)
(***************************************************************************)
Init ==
    /\ pc = "idle"
    /\ heap = NoHeap
    /\ args = NoArgs
    /\ visitor = NoVisitor
    /\ exc = NoExc
    /\ input = NoHeap
    /\ before = NoHeap
    /\ aborted = FALSE

\* A caller invokes annotate_python_ast(parsed_ast, source_code, class_types,
\* source_id) on a tree of its own.
AnnotateCall ==
    /\ pc = "idle"
    /\ \E tree \in InputTrees, opt \in CallOptions :
         /\ heap' = tree
         /\ input' = tree
         /\ before' = tree
         /\ args' = [parsed_ast |-> 1, source_code |-> SourceCode,
                     class_types |-> opt.class_types,
                     source_id |-> opt.source_id]
    /\ pc' = "l120"
    /\ UNCHANGED <<visitor, exc, aborted>>

\* Line 120: AnnotatingVisitor(source_code, class_types).visit(parsed_ast)
RunAnnotatingVisitor ==
    /\ pc = "l120"
    /\ LET s == AnnotatingVisitor_visit(
                    [ heap |-> heap,
                      visitor |-> NewAnnotatingVisitor(args.source_code,
                                                       args.class_types),
                      exc |-> NoExc ],
                    args.parsed_ast)
       IN  /\ heap' = s.heap
           /\ visitor' = s.visitor
           /\ exc' = s.exc
           /\ pc' = IF s.exc # NoExc THEN "raised" ELSE "l121"
    /\ before' = heap
    /\ UNCHANGED <<args, input, aborted>>

\* Line 121: RewriteUnarySubVisitor().visit(parsed_ast); the node the visit
\* returns is dropped, parsed_ast stays the caller's root.
RunRewriteUnarySubVisitor ==
    /\ pc = "l121"
    /\ heap' = RewriteUnarySubVisitor_visit(heap, args.parsed_ast).heap
    /\ before' = heap
    /\ pc' = "l123"
    /\ UNCHANGED <<args, visitor, exc, input, aborted>>

\* Line 123: asttokens.ASTTokens(source_code, tree=parsed_ast)
RunASTTokens ==
    /\ pc = "l123"
    /\ \E skipped \in {a \in Subtree(heap, args.parsed_ast) :
                         heap[a].cls = "Constant"} \cup {0} :
         heap' = MarkTokens(heap, args.parsed_ast, skipped)
    /\ before' = heap
    /\ pc' = "l124"
    /\ UNCHANGED <<args, visitor, exc, input, aborted>>

\* Line 124: AddSourceOffsetVisitor(source_id).visit(parsed_ast)
RunAddSourceOffsetVisitor ==
    /\ pc = "l124"
    /\ heap' = AddSourceOffsetVisitor_visit(heap, args.parsed_ast, args.source_id)
    /\ before' = heap
    /\ pc' = "returned"
    /\ UNCHANGED <<args, visitor, exc, input, aborted>>

\* The call is over and the caller lets go of the tree.  After a return the
\* visitor is gone with the call; after a raise the caller holds the
\* exception, whose traceback keeps the visitor of the failed call.  aborted
\* records that a call of this behaviour has raised.
ReturnToCaller ==
    /\ pc \in {"returned", "raised"}
    /\ pc' = "idle"
    /\ heap' = NoHeap
    /\ input' = NoHeap
    /\ before' = NoHeap
    /\ args' = NoArgs
    /\ visitor' = IF pc = "raised" THEN visitor ELSE NoVisitor
    /\ aborted' = (aborted \/ pc = "raised")
    /\ UNCHANGED exc

Next ==
    \/ AnnotateCall
    \/ RunAnnotatingVisitor
    \/ RunRewriteUnarySubVisitor
    \/ RunASTTokens
    \/ RunAddSourceOffsetVisitor

\* One call of annotate_python_ast.
Spec == Init /\ [][Next]_vars

NextRepeat == Next \/ ReturnToCaller

\* Any number of calls, one after the other.
SpecRepeat == Init /\ [][NextRepeat]_vars

(***************************************************************************)
(* Vocabulary of the properties.                                           *)
(***************************************************************************)
Root == args.parsed_ast

\* The nodes of the tree as it is now, and as the caller passed it.
Tree == Subtree(heap, Root)

InputNodes == Subtree(input, Root)

\* The index of node a in the pre-order of the input tree, from 0.
InputIndex(a) ==
    (CHOOSE i \in 1..Len(PreOrder(input, Root)) : PreOrder(input, Root)[i] = a) - 1

Id(a) == heap[a].node_id.v

AfterPass1 == pc \in {"l121", "l123", "l124", "returned"}

SupportedTypes == {"bool", "NoneType", "int", "float", "str", "bytes"}

\* A unary negation of the input whose operand is a numeric literal node.
NegatedLiteral(h, u) ==
    /\ h[u].cls = "UnaryOp"
    /\ h[h[u].kids[1]].cls = "USub"
    /\ h[h[u].kids[2]].cls = "Constant"
    /\ h[h[u].kids[2]].value.type \in {"int", "float"}

\* The places (parent, field index) that hold node a in heap h.
Slots(h, a) ==
    {<<p, i>> \in Subtree(h, Root) \X (1..3) :
        i <= Len(h[p].kids) /\ h[p].kids[i] = a}

RECURSIVE FoldsAway(_, _)
\* A unary negation whose operand is a numeric literal once the operand's own
\* subtree has been folded: the operand is a numeric literal, or is itself
\* such a negation.
FoldsAway(h, u) ==
    /\ h[u].cls = "UnaryOp"
    /\ h[h[u].kids[1]].cls = "USub"
    /\ \/ NegatedLiteral(h, u)
       \/ FoldsAway(h, h[u].kids[2])

RECURSIVE Survivor(_, _)
\* The node found in the place of a after folding below and at a.
Survivor(h, a) == IF FoldsAway(h, a) THEN Survivor(h, h[a].kids[2]) ELSE a

\* The number of negations folded onto literal d: the length of the chain of
\* FoldsAway nodes directly above d.
RECURSIVE FoldCount(_, _)
FoldCount(h, d) ==
    IF \E u \in Subtree(h, Root) : FoldsAway(h, u) /\ h[u].kids[2] = d
    THEN 1 + FoldCount(h, CHOOSE u \in Subtree(h, Root) :
                              FoldsAway(h, u) /\ h[u].kids[2] = d)
    ELSE 0

(***************************************************************************)
(* C1: after the AnnotatingVisitor pass completes on a tree of N nodes, the *)
(* node_id values are exactly 0..N-1, one node each, in pre-order: the     *)
(* root has 0, a node's id is smaller than the ids of its descendants, and *)
(* the ids of an earlier child's subtree are smaller than those of a later *)
(* child's subtree.                                                        *)
(***************************************************************************)
C1_PreOrderIds ==
    pc = "l121" =>
        LET order == PreOrder(heap, Root)
            N == Len(order)
        IN  /\ \A i \in 1..N : heap[order[i]].node_id = PyInt(i - 1)
            /\ Cardinality(Tree) = N
            /\ {Id(a) : a \in Tree} = 0..(N - 1)
            /\ \A a, b \in Tree : a # b => Id(a) # Id(b)
            /\ Id(Root) = 0
            /\ \A a \in Tree : \A d \in Subtree(heap, a) \ {a} : Id(a) < Id(d)
            /\ \A a \in Tree : \A i, j \in 1..Len(heap[a].kids) :
                 i < j =>
                   \A x \in Subtree(heap, heap[a].kids[i]) :
                     \A y \in Subtree(heap, heap[a].kids[j]) : Id(x) < Id(y)

\* The pass has completed on a binary expression whose left operand has
\* children of its own.
C1_Witness ==
    /\ pc = "l121"
    /\ \E a \in Tree :
         /\ heap[a].cls = "BinOp"
         /\ heap[heap[a].kids[1]].cls = "UnaryOp"
         /\ heap[a].node_id # Unset

(***************************************************************************)
(* C2: every constant node gets exactly one of NameConstant, Num, Str,     *)
(* Bytes, by first match in the order bool or None, int or float, str,     *)
(* bytes; a bool is NameConstant and never Num; a value of no such kind    *)
(* gets no tag of the four and makes the pass fail.                        *)
(***************************************************************************)
C2_ConstantKinds ==
    /\ AfterPass1 =>
         \A a \in InputNodes :
           input[a].cls = "Constant" =>
             LET type == input[a].value.type
             IN  /\ type \in SupportedTypes
                 /\ type \in {"bool", "NoneType"} =>
                      heap[a].ast_type = PyStr("NameConstant")
                 /\ type \in {"int", "float"} => heap[a].ast_type = PyStr("Num")
                 /\ type = "str" => heap[a].ast_type = PyStr("Str")
                 /\ type = "bytes" => heap[a].ast_type = PyStr("Bytes")
    /\ pc = "raised" =>
         /\ input[exc.node].cls = "Constant"
         /\ input[exc.node].value.type \notin SupportedTypes
         /\ heap[exc.node].ast_type \notin
              {PyStr("NameConstant"), PyStr("Num"), PyStr("Str"), PyStr("Bytes")}

\* The pass has tagged a bool constant and an int constant of one tree.
C2_Witness ==
    /\ pc = "l121"
    /\ \E a, b \in Tree :
         /\ heap[a].cls = "Constant" /\ heap[a].value.type = "bool"
         /\ heap[a].ast_type = PyStr("NameConstant")
         /\ heap[b].cls = "Constant" /\ heap[b].value.type = "int"
         /\ heap[b].ast_type = PyStr("Num")

(***************************************************************************)
(* C3 (as claimed): after the fold pass, every unary negation of the input *)
(* whose operand is a numeric literal node, the root included, is out of   *)
(* the tree reachable from the caller's root; the operand holds its place, *)
(* with the negation of the value it had and the unary node's start column.*)
(***************************************************************************)
C3_NegatedLiteralReplaced ==
    pc = "l123" =>
        \A u \in InputNodes :
          NegatedLiteral(input, u) =>
            LET operand == input[u].kids[2]
            IN  /\ u \notin Tree
                /\ operand \in Tree
                /\ \A sl \in Slots(input, u) : heap[sl[1]].kids[sl[2]] = operand
                /\ heap[operand].value.n = 0 - input[operand].value.n
                /\ heap[operand].col_offset = input[u].col_offset

(***************************************************************************)
(* C4 (as claimed): the fold pass leaves alone every unary node of the     *)
(* input that is not a negation of a numeric literal node: it is still in  *)
(* the tree at its place, wraps its original operand node, and the literal *)
(* values below it are those the negated literals below it account for.    *)
(* Stated for the unary nodes below the root, where the node a visit       *)
(* returns is stored by the parent.                                        *)
(***************************************************************************)
C4_Original ==
    pc = "l123" =>
        \A u \in InputNodes \ {Root} :
          (input[u].cls = "UnaryOp" /\ ~NegatedLiteral(input, u)) =>
            /\ u \in Tree
            /\ \A sl \in Slots(input, u) : heap[sl[1]].kids[sl[2]] = u
            /\ heap[u].kids = input[u].kids
            /\ \A d \in Subtree(input, u) :
                 input[d].cls = "Constant" =>
                   heap[d].value.n =
                     IF \E w \in Subtree(input, u) :
                          NegatedLiteral(input, w) /\ input[w].kids[2] = d
                     THEN 0 - input[d].value.n
                     ELSE input[d].value.n

(***************************************************************************)
(* C4 (amended): children are folded before their parent.  A unary node of *)
(* the input that is not a negation, or is a negation whose operand is     *)
(* neither a numeric literal node nor a negation that folds into one, is   *)
(* still in the tree at its place with its operator; it wraps its original *)
(* operand node or, when that operand folded, the literal that took the    *)
(* operand's place; every literal below it holds its input value negated   *)
(* once per negation folded onto it.                                       *)
(***************************************************************************)
C4_UnfoldedUnaryKept ==
    pc = "l123" =>
        \A u \in InputNodes :
          (input[u].cls = "UnaryOp" /\ ~FoldsAway(input, u)) =>
            /\ u \in Tree
            /\ u # Root => Slots(heap, u) = Slots(input, u) /\ Slots(heap, u) # {}
            /\ heap[u].kids =
                 <<input[u].kids[1], Survivor(input, input[u].kids[2])>>
            /\ \A d \in Subtree(input, u) :
                 input[d].cls = "Constant" =>
                   /\ heap[d].value.type = input[d].value.type
                   /\ heap[d].value.n =
                        IF FoldCount(input, d) % 2 = 1
                        THEN 0 - input[d].value.n
                        ELSE input[d].value.n

\* The fold pass has run over a negation of a binary expression that holds
\* an int literal.
C4_Witness ==
    /\ pc = "l123"
    /\ \E u \in Tree :
         /\ input[u].cls = "UnaryOp"
         /\ input[input[u].kids[1]].cls = "USub"
         /\ input[input[u].kids[2]].cls = "BinOp"
         /\ \E d \in Subtree(heap, u) :
              heap[d].cls = "Constant" /\ heap[d].value.type = "int"

(***************************************************************************)
(* C5: when the AnnotatingVisitor pass reaches a constant whose value is   *)
(* none of bool, None, int, float, str, bytes, annotate ends with an error *)
(* carrying that node; neither later pass runs: the tree keeps the input's *)
(* shape, no value or position has changed, no span field is written.      *)
(***************************************************************************)
C5_UnsupportedAborts ==
    /\ (pc \notin {"idle", "l120"}
        /\ \E a \in InputNodes :
             input[a].cls = "Constant"
             /\ input[a].value.type \notin SupportedTypes)
       => pc = "raised"
    /\ pc = "raised" =>
         /\ exc.tag = "SyntaxException"
         /\ exc.node \in InputNodes
         /\ input[exc.node].cls = "Constant"
         /\ input[exc.node].value.type \notin SupportedTypes
         /\ \A a \in InputNodes :
              (input[a].cls = "Constant"
               /\ input[a].value.type \notin SupportedTypes)
              => InputIndex(exc.node) <= InputIndex(a)
         /\ ~ENABLED RunRewriteUnarySubVisitor
         /\ ~ENABLED RunASTTokens
         /\ ~ENABLED RunAddSourceOffsetVisitor
         /\ Tree = InputNodes
         /\ \A a \in InputNodes :
              /\ heap[a].kids = input[a].kids
              /\ heap[a].value = input[a].value
              /\ heap[a].lineno = input[a].lineno
              /\ heap[a].col_offset = input[a].col_offset
              /\ heap[a].end_lineno = input[a].end_lineno
              /\ heap[a].end_col_offset = input[a].end_col_offset
              /\ heap[a].first_token = Unset
              /\ heap[a].last_token = Unset
              /\ heap[a].src = Unset

\* The pass has failed on a constant that comes after a negated literal.
C5_Witness ==
    /\ pc = "raised"
    /\ \E u \in InputNodes :
         /\ NegatedLiteral(input, u)
         /\ InputIndex(u) < InputIndex(exc.node)

(***************************************************************************)
(* C6: after the AddSourceOffsetVisitor pass, a node with tokens has its   *)
(* start line and column from the first token's start, its end line and    *)
(* column from the last token's end, and src made of the first token's     *)
(* byte offset, the length to the last token's end and the source_id       *)
(* (tokens over [10, 15) give 10 and 5); a node without tokens has None in *)
(* all four position fields, a column written by the fold included.  The   *)
(* pass adds and removes no node.                                          *)
(***************************************************************************)
C6_SourceOffsets ==
    pc = "returned" =>
        /\ Tree = Subtree(before, Root)
        /\ \A a \in Tree :
             LET b == before[a]
                 h == heap[a]
             IN  /\ h.kids = b.kids
                 /\ (b.first_token # Unset /\ b.last_token # Unset) =>
                      /\ h.lineno = PyInt(b.first_token.start[1])
                      /\ h.col_offset = PyInt(b.first_token.start[2])
                      /\ h.end_lineno = PyInt(b.last_token.end[1])
                      /\ h.end_col_offset = PyInt(b.last_token.end[2])
                      /\ h.src =
                           PyStr(ToString(b.first_token.startpos) \o ":"
                                 \o ToString(b.last_token.endpos
                                             - b.first_token.startpos)
                                 \o ":" \o ToString(args.source_id))
                      /\ (b.first_token.startpos = 10 /\ b.last_token.endpos = 15)
                         => h.src = PyStr("10:5:" \o ToString(args.source_id))
                 /\ (b.first_token = Unset /\ b.last_token = Unset) =>
                      /\ h.lineno = PyNone
                      /\ h.col_offset = PyNone
                      /\ h.end_lineno = PyNone
                      /\ h.end_col_offset = PyNone

\* The pass has run with source_id 7 over a tree whose root covers bytes
\* [10, 15) and which holds a folded literal without tokens.
C6_Witness ==
    /\ pc = "returned"
    /\ heap[Root].src = PyStr("10:5:7")
    /\ \E a \in Tree :
         /\ heap[a].cls = "Constant"
         /\ before[a].first_token = Unset
         /\ before[a].col_offset # input[a].col_offset
         /\ heap[a].col_offset = PyNone

(***************************************************************************)
(* C7: after annotate every ClassDef node has class_type equal to the      *)
(* table's entry for its name, and None when the name is not in the table  *)
(* or no table was given; a missing name raises nothing; the ClassDef node *)
(* gets its node_id before all of its children.                            *)
(***************************************************************************)
C7_ClassTypes ==
    /\ AfterPass1 =>
         \A a \in InputNodes :
           input[a].cls = "ClassDef" =>
             /\ IF args.class_types = PyNone
                THEN heap[a].class_type = PyNone
                ELSE /\ \A p \in args.class_types.items :
                          p[1] = input[a].name => heap[a].class_type = PyStr(p[2])
                     /\ (\A p \in args.class_types.items : p[1] # input[a].name)
                        => heap[a].class_type = PyNone
             /\ heap[a].node_id # Unset
             /\ \A d \in Subtree(input, a) \ {a} :
                  heap[d].node_id # Unset /\ Id(a) < Id(d)
    /\ pc = "raised" => input[exc.node].cls # "ClassDef"
    /\ (pc \notin {"idle", "l120"}
        /\ \A a \in InputNodes : input[a].cls \in {"ClassDef", "Module"})
       => pc # "raised"

\* annotate has returned for a table without the name of a ClassDef that
\* has a body.
C7_Witness ==
    /\ pc = "returned"
    /\ args.class_types # PyNone
    /\ \E a \in Tree :
         /\ heap[a].cls = "ClassDef"
         /\ heap[a].name = "Bar"
         /\ Len(heap[a].kids) > 0
         /\ heap[a].class_type = PyNone

(***************************************************************************)
(* C8 (as claimed): after a successful annotate the node_id values of the  *)
(* final tree are unique and are the range 0..count-1, count the number of *)
(* nodes of the final tree, in pre-order of the final tree.                *)
(***************************************************************************)
C8_Original ==
    pc = "returned" =>
        LET order == PreOrder(heap, Root)
        IN  \A i \in 1..Len(order) : heap[order[i]].node_id = PyInt(i - 1)

(***************************************************************************)
(* C8 (amended): after a successful annotate the node_id values of the     *)
(* final tree are unique, start at 0 at the root and increase in pre-order *)
(* of the final tree; they are the ids 0..N-1 handed out over the N nodes  *)
(* of the input tree less the ids of the nodes the fold removed, so they   *)
(* are a contiguous range only when no node was removed.                   *)
(***************************************************************************)
C8_FinalIds ==
    pc = "returned" =>
        LET order == PreOrder(heap, Root)
            N == Cardinality(InputNodes)
        IN  /\ \A i, j \in 1..Len(order) :
                 i < j => Id(order[i]) < Id(order[j])
            /\ Id(Root) = 0
            /\ {Id(a) : a \in Tree} =
                 (0..(N - 1)) \ {InputIndex(r) : r \in InputNodes \ Tree}
            /\ ({Id(a) : a \in Tree} = 0..(Cardinality(Tree) - 1))
               <=> (Tree = InputNodes)

\* annotate has returned and the fold removed a node of the tree.
C8_Witness ==
    /\ pc = "returned"
    /\ Tree # InputNodes
    /\ \E a \in Tree : heap[a].cls = "Constant" /\ heap[a].value.n < 0

(***************************************************************************)
(* C9: the fold pass changes no identity or classification: every node     *)
(* still in the tree has the node_id, source_code and ast_type the first   *)
(* pass gave it (a folded literal keeps its id and its Num tag); on those  *)
(* nodes it changes only the value and start column of folded literals and *)
(* the child links of the parents of removed nodes.                        *)
(***************************************************************************)
C9_FoldKeepsIdentity ==
    pc = "l123" =>
        \A a \in Tree :
          LET b == before[a]
              h == heap[a]
              foldedLiteral ==
                  \E u \in Subtree(before, Root) :
                    FoldsAway(before, u) /\ Survivor(before, u) = a
          IN  /\ h.node_id = b.node_id
              /\ h.node_id = PyInt(InputIndex(a))
              /\ h.source_code = b.source_code
              /\ h.source_code = PyStr(args.source_code)
              /\ h.ast_type = b.ast_type
              /\ foldedLiteral => h.ast_type = PyStr("Num")
              /\ [h EXCEPT !.value = b.value, !.col_offset = b.col_offset,
                           !.kids = b.kids] = b
              /\ (h.value # b.value \/ h.col_offset # b.col_offset)
                 => foldedLiteral
              /\ Len(h.kids) = Len(b.kids)
              /\ \A i \in 1..Len(b.kids) :
                   h.kids[i] # b.kids[i] => b.kids[i] \notin Tree

\* The fold pass has negated a literal and put it in the place of its
\* unary node.
C9_Witness ==
    /\ pc = "l123"
    /\ \E a \in Tree :
         /\ heap[a].value # before[a].value
         /\ \E sl \in Slots(heap, a) : before[sl[1]].kids[sl[2]] # a

(***************************************************************************)
(* C10: the id counter belongs to one annotate call: in any sequence of    *)
(* calls, also after a call that failed part-way through the numbering,    *)
(* the root of the tree gets id 0 and every id the call assigns is the     *)
(* node's pre-order index in its own tree.                                 *)
(***************************************************************************)
C10_CounterPerCall ==
    pc \in {"l121", "l123", "l124", "returned", "raised"} =>
        /\ heap[Root].node_id = PyInt(0)
        /\ \A a \in InputNodes :
             heap[a].node_id \in {Unset, PyInt(InputIndex(a))}
        /\ visitor.counter =
             Cardinality({a \in InputNodes : heap[a].node_id # Unset})

\* After a call that raised, a further call has numbered a tree of several
\* nodes.
C10_Witness ==
    /\ pc = "l121"
    /\ aborted
    /\ Cardinality(InputNodes) > 2
    /\ heap[Root].node_id = PyInt(0)
    /\ visitor.counter = Cardinality(InputNodes)
====
